---------------------------- MODULE Spec2Model ----------------------------
(***************************************************************************)
(* soap-node-mysql: the condition-tree-to-SQL translator                   *)
(* (MySqlWhereParser), the query-parameter compiler (MySqlQueryFactory)    *)
(* and the execution layer (MySqlCollection) running against a mysql2      *)
(* pool.                                                                   *)
(*                                                                         *)
(* SQL text is a sequence of tokens (strings): "age > ?" is                *)
(* <<"age", ">", "?">>, a template `A ${x}` is <<"A">> \o x, and the       *)
(* placeholder token is "?".  An absent fragment and the empty string are  *)
(* both the empty token sequence (the code tests fragments for truthiness  *)
(* only).                                                                  *)
(*                                                                         *)
(* JavaScript values that the code tests for their kind carry a tag t:     *)
(* null, undefined, numbers (finite, Infinity, NaN), Where instances and   *)
(* plain objects whose key order matters.  Condition nodes are plain       *)
(* records; the parser probes them for the keys "left" and "conditions".   *)
(***************************************************************************)
EXTENDS Integers, Sequences, FiniteSets, TLC

VARIABLES
    factoryCall,  \* the call made on MySqlWhereParser / MySqlQueryFactory
    factoryRet,   \* what that call returned or threw, NotCalled before it ran
    query,        \* the argument of the MySqlCollection method being run
    pc,           \* where the running MySqlCollection method stands
    requests,     \* every request handed to the pool, in issue order
    replies,      \* replies[i]: how the pool settled requests[i], Pending before
    txn,          \* the pool's transaction context: "none" or "open"
    txnWrites,    \* batch rows written inside the open transaction
    store,        \* store[r]: TRUE when batch row r is modified in the table
    result        \* what the method returned or threw, Running before

factoryVars == <<factoryCall, factoryRet>>
collectionVars == <<query, pc, requests, replies, txn, txnWrites, store, result>>
vars == <<factoryCall, factoryRet, query, pc, requests, replies, txn,
          txnWrites, store, result>>

-----------------------------------------------------------------------------
(* Bounds of the model *)

\* nodes (leaves, nulls, malformed nodes and groups) of a condition tree
MaxTreeSize == 4
\* payloads, and conditions, of one createUpdateQuery call
MaxUpdates == 3
\* update rows of one MySqlCollection.update call
MaxBatch == 2

-----------------------------------------------------------------------------
(* JavaScript values *)

Null == [t |-> "null"]
Undefined == [t |-> "undefined"]
Num(n) == [t |-> "number", finite |-> TRUE, v |-> n]
Infinity == [t |-> "number", finite |-> FALSE, v |-> 1]
NaN == [t |-> "number", finite |-> FALSE, v |-> 0]
\* the number n + 0.5
Half(n) == [t |-> "number", finite |-> TRUE, v |-> n, half |-> TRUE]
WhereOf(c) == [t |-> "Where", result |-> c]
ObjectOf(entries) == [t |-> "object", entries |-> entries]

IsTagged(x, tag) == "t" \in DOMAIN x /\ x.t = tag

\* !x
Falsy(x) ==
    \/ IsTagged(x, "null")
    \/ IsTagged(x, "undefined")
    \/ IsTagged(x, "number") /\ x.v = 0

\* Number.isFinite(x)
NumberIsFinite(x) == IsTagged(x, "number") /\ x.finite

\* `${x}` of a number
NumberToString(x) ==
    IF x.finite THEN ToString(x.v) ELSE IF x.v = 0 THEN "NaN" ELSE "Infinity"

\* String.prototype.toUpperCase on the joiners the model uses
ToUpperCase(s) ==
    CASE s = "and" -> "AND"
      [] s = "or" -> "OR"
      [] OTHER -> s

RECURSIVE Join(_, _)
\* Array.prototype.join: parts is a sequence of texts, sep a text
Join(parts, sep) ==
    IF Len(parts) = 0 THEN <<>>
    ELSE IF Len(parts) = 1 THEN parts[1]
    ELSE parts[1] \o sep \o Join(Tail(parts), sep)

RECURSIVE Flatten(_)
\* the concatenation of a sequence of sequences
Flatten(parts) ==
    IF Len(parts) = 0 THEN <<>> ELSE parts[1] \o Flatten(Tail(parts))

\* the number of placeholder tokens of a text
Placeholders(text) == Cardinality({i \in 1..Len(text) : text[i] = "?"})

\* the position in text of its i-th placeholder token
PlaceholderAt(text, i) ==
    CHOOSE p \in 1..Len(text) :
        /\ text[p] = "?"
        /\ Cardinality({q \in 1..p : text[q] = "?"}) = i

-----------------------------------------------------------------------------
(* MySqlWhereParser *)

Operators == {"eq", "ne", "gt", "lt", "gte", "lte", "in", "nin", "like"}

Compiled(text, values) == [err |-> "none", query |-> text, values |-> values]
Thrown(message) == [err |-> message, query |-> <<>>, values |-> <<>>]

\* convertOperatorToSql without its default branch: an operator outside the
\* nine goes into the text as it is
convertOperatorToSqlNoDefault(operator) ==
    CASE operator = "eq" -> "="
      [] operator = "ne" -> "!="
      [] operator = "gt" -> ">"
      [] operator = "lt" -> "<"
      [] operator = "gte" -> ">="
      [] operator = "lte" -> "<="
      [] operator = "in" -> "IN"
      [] operator = "nin" -> "NOT IN"
      [] operator = "like" -> "LIKE"
      [] OTHER -> operator

\* the SQL token of an operator, "throw" where the switch reaches its default
convertOperatorToSql(operator) ==
    CASE operator = "eq" -> "="
      [] operator = "ne" -> "!="
      [] operator = "gt" -> ">"
      [] operator = "lt" -> "<"
      [] operator = "gte" -> ">="
      [] operator = "lte" -> "<="
      [] operator = "in" -> "IN"
      [] operator = "nin" -> "NOT IN"
      [] operator = "like" -> "LIKE"
      [] OTHER -> "throw"

\* the destructured `operator` of a leaf-shaped node, "undefined" when absent
OperatorOf(condition) ==
    IF "operator" \in DOMAIN condition THEN condition.operator ELSE "undefined"

parseSimpleCondition(condition) ==
    LET sqlOperator == convertOperatorToSql(OperatorOf(condition))
    IN  IF sqlOperator = "throw"
        THEN Thrown("Unsupported operator")
        ELSE Compiled(<<condition.left, sqlOperator, "?">>, <<condition.right>>)

RECURSIVE parse(_)
RECURSIVE parseNestedLoop(_, _, _, _)

\* parseNestedLoop with values.unshift(...) in place of values.push(...)
parseNestedLoopUnshift(nestedCondition, i, sqlParts, values) ==
    IF i > Len(nestedCondition.conditions)
    THEN Compiled(
            Join(sqlParts, <<ToUpperCase(nestedCondition.operator)>>), values)
    ELSE LET parsed == parse(nestedCondition.conditions[i])
         IN  IF parsed.err # "none"
             THEN parsed
             ELSE parseNestedLoop(
                    nestedCondition, i + 1,
                    Append(sqlParts, <<"(">> \o parsed.query \o <<")">>),
                    parsed.values \o values)

\* the for loop of parseNestedCondition from child i on; a child's throw
\* leaves the loop, otherwise the parts are joined after the last child
parseNestedLoop(nestedCondition, i, sqlParts, values) ==
    IF i > Len(nestedCondition.conditions)
    THEN Compiled(
            Join(sqlParts, <<ToUpperCase(nestedCondition.operator)>>), values)
    ELSE LET parsed == parse(nestedCondition.conditions[i])
         IN  IF parsed.err # "none"
             THEN parsed
             ELSE parseNestedLoop(
                    nestedCondition, i + 1,
                    Append(sqlParts, <<"(">> \o parsed.query \o <<")">>),
                    values \o parsed.values)

parseNestedCondition(nestedCondition) ==
    parseNestedLoop(nestedCondition, 1, <<>>, <<>>)

parse(data) ==
    IF Falsy(data) THEN Compiled(<<"1=1">>, <<>>)
    ELSE IF IsTagged(data, "Where") THEN parse(data.result)
    ELSE IF "left" \in DOMAIN data THEN parseSimpleCondition(data)
    ELSE IF "conditions" \in DOMAIN data THEN parseNestedCondition(data)
    ELSE Thrown("Invalid condition format")

-----------------------------------------------------------------------------
(* MySqlQueryFactory *)

\* params.where of a FindParams / CountParams / RemoveParams, Undefined when
\* the caller left the field out
WhereField(params) ==
    IF "where" \in DOMAIN params THEN params.where ELSE Undefined

\* `${key} ${sort[key] === -1 ? "DESC" : "ASC"}` for every key, in key order
SortTexts(sort) ==
    [i \in 1..Len(sort.entries) |->
        <<sort.entries[i].key,
          IF sort.entries[i].value = -1 THEN "DESC" ELSE "ASC">>]

\* result.limit of createFindQuery
LimitFragment(limit, offset) ==
    IF NumberIsFinite(limit) /\ NumberIsFinite(offset)
    THEN <<"LIMIT", NumberToString(offset), ",", NumberToString(limit)>>
    ELSE IF ~Falsy(limit)
    THEN <<"LIMIT", NumberToString(limit)>>
    ELSE <<>>

createFindQuery(params) ==
    LET where == WhereField(params)
        parsed == IF Falsy(where) THEN Compiled(<<>>, <<>>)
                  ELSE parse(where.result)
    IN  IF parsed.err # "none"
        THEN [err |-> parsed.err, where |-> <<>>, sort |-> <<>>, limit |-> <<>>]
        ELSE [err |-> "none",
              where |-> IF Falsy(where) THEN <<>>
                        ELSE <<"WHERE">> \o parsed.query,
              sort |-> IF IsTagged(params.sort, "object")
                       THEN <<"ORDER", "BY">>
                            \o Join(SortTexts(params.sort), <<",">>)
                       ELSE <<>>,
              limit |-> LimitFragment(params.limit, params.offset)]

createCountQuery(params) ==
    LET where == WhereField(params)
        parsed == IF Falsy(where) THEN Compiled(<<>>, <<>>)
                  ELSE parse(where.result)
    IN  IF parsed.err # "none"
        THEN [err |-> parsed.err, where |-> <<>>]
        ELSE [err |-> "none", where |-> <<"WHERE">> \o parsed.query]

\* the `where` array of createUpdateQuery after the padding loop: the last
\* element (undefined for an empty array) is pushed once per surplus payload
PaddedWhere(updates, where) ==
    LET diff == Len(updates) - Len(where)
        lastWhere == IF Len(where) = 0 THEN Undefined ELSE where[Len(where)]
    IN  IF diff > 0
        THEN where \o [i \in 1..diff |-> lastWhere]
        ELSE where

\* UpdateRowWhere reading the padding element for every row
UpdateRowWhereLast(updates, where, i) ==
    PaddedWhere(updates, where)[Len(PaddedWhere(updates, where))]

\* where[i] as the forEach callback of createUpdateQuery reads it
UpdateRowWhere(updates, where, i) ==
    PaddedWhere(updates, where)[i]

\* the row the forEach callback of createUpdateQuery builds for payload i,
\* or what reading where[i].result and compiling it throws
UpdateRow(updates, where, i) ==
    LET w == UpdateRowWhere(updates, where, i)
        parsed == IF IsTagged(w, "undefined") THEN Thrown("TypeError")
                  ELSE parse(w.result)
        entries == updates[i].entries
    IN  [err |-> parsed.err,
         keys |-> [k \in 1..Len(entries) |-> <<entries[k].key, "=", "?">>],
         values |-> [k \in 1..Len(entries) |-> entries[k].value],
         where |-> parsed.query]

createUpdateQuery(updates, where) ==
    LET rows == [i \in 1..Len(updates) |-> UpdateRow(updates, where, i)]
        failed == {i \in 1..Len(updates) : rows[i].err # "none"}
    IN  IF failed # {}
        THEN [err |-> rows[CHOOSE i \in failed : \A j \in failed : i <= j].err,
              updates |-> <<>>]
        ELSE [err |-> "none",
              updates |-> [i \in 1..Len(updates) |->
                              [keys |-> rows[i].keys,
                               values |-> rows[i].values,
                               where |-> rows[i].where]]]

createRemoveQuery(params) ==
    LET where == WhereField(params)
    IN  IF IsTagged(where, "undefined") \/ IsTagged(where, "null")
        THEN [err |-> "TypeError", where |-> <<>>]
        ELSE IF ~Falsy(where.result)
        THEN LET parsed == parse(where.result)
             IN  IF parsed.err # "none"
                 THEN [err |-> parsed.err, where |-> <<>>]
                 ELSE [err |-> "none", where |-> <<"WHERE">> \o parsed.query]
        ELSE [err |-> "none", where |-> <<>>]

-----------------------------------------------------------------------------
(* The calls made on the parser and the factory *)

Fields == {"age", "status"}
UnsupportedOperators == {"regex", "between"}
Scalars == {18, 19}
Joiners == {"and", "or"}

\* every leaf-shaped node, and one whose operator is missing
Leaves ==
    [left : Fields, operator : Operators \cup UnsupportedOperators,
     right : Scalars]
    \cup {[left |-> "age", right |-> 18]}

\* a node that has neither a "left" nor a "conditions" key
Malformed == [foo |-> 1]

\* the nodes that groups are built from
GroupAtoms ==
    {l \in Leaves : /\ "operator" \in DOMAIN l
                    /\ l.operator \in {"eq", "gt", "regex"}
                    /\ <<l.left, l.right>> \in {<<"age", 18>>, <<"status", 19>>}}
    \cup {Null, Malformed}

RECURSIVE TreesOfSize(_)
RECURSIVE Forests(_)

\* the sequences of trees that have m nodes in total
Forests(m) ==
    IF m = 0 THEN {<<>>}
    ELSE UNION {{<<t>> \o f : t \in TreesOfSize(k), f \in Forests(m - k)} :
                    k \in 1..m}

\* the condition trees of exactly n nodes
TreesOfSize(n) ==
    (IF n = 1 THEN GroupAtoms ELSE {})
    \cup {[operator |-> j, conditions |-> f] : j \in Joiners, f \in Forests(n - 1)}

Trees == Leaves \cup UNION {TreesOfSize(n) : n \in 1..MaxTreeSize}

AgeLeaf == [left |-> "age", operator |-> "gt", right |-> 18]
StatusLeaf == [left |-> "status", operator |-> "eq", right |-> 19]
LikeLeaf == [left |-> "status", operator |-> "like", right |-> 18]
RegexLeaf == [left |-> "age", operator |-> "regex", right |-> 18]
OrGroup == [operator |-> "or", conditions |-> <<AgeLeaf, StatusLeaf>>]

\* the Where instances handed to the factory
WhereArgs ==
    {WhereOf(c) : c \in {Null, AgeLeaf, StatusLeaf, LikeLeaf, RegexLeaf, OrGroup}}

\* FindParams / CountParams / RemoveParams: the where field is a Where
\* instance, or left out
WhereParams == {[where |-> w] : w \in WhereArgs} \cup {[other |-> Undefined]}

SortArgs ==
    {Undefined, ObjectOf(<<>>),
     ObjectOf(<<[key |-> "age", value |-> -1], [key |-> "status", value |-> 1]>>)}

LimitArgs == {Undefined, Num(0), Num(10), Infinity, NaN}
OffsetArgs == {Undefined, Num(0), Num(5), Infinity, NaN}

FindParams ==
    {[where |-> w, sort |-> s, limit |-> l, offset |-> o] :
        w \in {Undefined, WhereOf(AgeLeaf), WhereOf(RegexLeaf)},
        s \in SortArgs, l \in LimitArgs, o \in OffsetArgs}

Payloads ==
    {ObjectOf(<<[key |-> "name", value |-> 18]>>),
     ObjectOf(<<[key |-> "name", value |-> 19], [key |-> "age", value |-> 18]>>)}

SeqsUpTo(S, n) == UNION {[1..k -> S] : k \in 0..n}

FactoryCalls ==
    {[fn |-> "parse", data |-> d] :
        d \in Trees \cup {WhereOf(OrGroup), WhereOf(Null)}}
    \cup {[fn |-> "createFindQuery", params |-> p] : p \in FindParams}
    \cup {[fn |-> "createCountQuery", params |-> p] : p \in WhereParams}
    \cup {[fn |-> "createRemoveQuery", params |-> p] : p \in WhereParams}
    \cup {[fn |-> "createUpdateQuery", updates |-> u, where |-> w] :
            u \in SeqsUpTo(Payloads, MaxUpdates),
            w \in SeqsUpTo({WhereOf(c) : c \in {Null, AgeLeaf, StatusLeaf, RegexLeaf}},
                           MaxUpdates)}

NotCalled == [err |-> "not called"]
Running == [kind |-> "running"]

CollectionIdle ==
    /\ query = Undefined
    /\ pc = "idle"
    /\ requests = <<>>
    /\ replies = <<>>
    /\ txn = "none"
    /\ txnWrites = {}
    /\ store = [r \in 1..MaxBatch |-> FALSE]
    /\ result = Running

FactoryInit ==
    /\ factoryCall \in FactoryCalls
    /\ factoryRet = NotCalled
    /\ CollectionIdle

Parse ==
    /\ factoryCall.fn = "parse"
    /\ factoryRet = NotCalled
    /\ factoryRet' = parse(factoryCall.data)
    /\ UNCHANGED <<factoryCall, collectionVars>>

CreateFindQuery ==
    /\ factoryCall.fn = "createFindQuery"
    /\ factoryRet = NotCalled
    /\ factoryRet' = createFindQuery(factoryCall.params)
    /\ UNCHANGED <<factoryCall, collectionVars>>

CreateCountQuery ==
    /\ factoryCall.fn = "createCountQuery"
    /\ factoryRet = NotCalled
    /\ factoryRet' = createCountQuery(factoryCall.params)
    /\ UNCHANGED <<factoryCall, collectionVars>>

CreateUpdateQuery ==
    /\ factoryCall.fn = "createUpdateQuery"
    /\ factoryRet = NotCalled
    /\ factoryRet' = createUpdateQuery(factoryCall.updates, factoryCall.where)
    /\ UNCHANGED <<factoryCall, collectionVars>>

CreateRemoveQuery ==
    /\ factoryCall.fn = "createRemoveQuery"
    /\ factoryRet = NotCalled
    /\ factoryRet' = createRemoveQuery(factoryCall.params)
    /\ UNCHANGED <<factoryCall, collectionVars>>

FactoryNext ==
    \/ Parse
    \/ CreateFindQuery
    \/ CreateCountQuery
    \/ CreateUpdateQuery
    \/ CreateRemoveQuery

FactorySpec == FactoryInit /\ [][FactoryNext]_vars

-----------------------------------------------------------------------------
(* The mysql2 pool, as MySqlCollection uses it *)

\* this.__collectionName
TableName == "users"

Pending == [state |-> "pending"]
Rejected == [state |-> "rejected"]
Fulfilled(rows, affectedRows, insertId) ==
    [state |-> "fulfilled", rows |-> rows, affectedRows |-> affectedRows,
     insertId |-> insertId]

QueryRequest(sql, values, row) ==
    [kind |-> "query", sql |-> sql, values |-> values, row |-> row]
ControlRequest(kind) ==
    [kind |-> kind, sql |-> <<>>, values |-> <<>>, row |-> 0]

StringOf(s) == [t |-> "string", s |-> s]

\* the row sets a SELECT may come back with
RowSets ==
    {<<>>,
     <<[count |-> Num(0)]>>,
     <<[count |-> Num(3)]>>,
     <<[count |-> Half(3)]>>,
     <<[count |-> StringOf("3")]>>,
     <<[count |-> NaN]>>,
     <<[id |-> Num(1)]>>}

\* the first element of the driver's result for a statement: a row set for
\* a SELECT, a ResultSetHeader for the rest
QueryResults(sql) ==
    IF sql[1] = "SELECT"
    THEN {Fulfilled(rows, 0, 0) : rows \in RowSets}
    ELSE IF sql[1] = "INSERT"
    THEN {Fulfilled(<<>>, 1, 7)}
    ELSE {Fulfilled(<<>>, n, 0) : n \in 0..1}

Issue(newRequests) ==
    /\ requests' = requests \o newRequests
    /\ replies' = replies \o [i \in 1..Len(newRequests) |-> Pending]

\* The pool runs a pending statement, whichever it is: pool.query takes any
\* free connection, so statements issued together settle in any order, and
\* one issued before a rollback may run after it.  A statement that updates a
\* batch row writes inside the transaction when one is open and straight to
\* the table (autocommit) when none is.
PoolQuery ==
    \E i \in 1..Len(requests) :
        /\ requests[i].kind = "query"
        /\ replies[i] = Pending
        /\ \/ /\ replies' = [replies EXCEPT ![i] = Rejected]
              /\ UNCHANGED <<txnWrites, store>>
           \/ \E reply \in QueryResults(requests[i].sql) :
                /\ replies' = [replies EXCEPT ![i] = reply]
                /\ IF requests[i].row = 0 \/ reply.affectedRows = 0
                   THEN UNCHANGED <<txnWrites, store>>
                   ELSE IF txn = "open"
                   THEN /\ txnWrites' = txnWrites \cup {requests[i].row}
                        /\ UNCHANGED store
                   ELSE /\ store' = [store EXCEPT ![requests[i].row] = TRUE]
                        /\ UNCHANGED txnWrites
        /\ UNCHANGED <<factoryVars, query, pc, requests, txn, result>>

PoolBeginTransaction ==
    \E i \in 1..Len(requests) :
        /\ requests[i].kind = "beginTransaction"
        /\ replies[i] = Pending
        /\ \/ /\ replies' = [replies EXCEPT ![i] = Rejected]
              /\ UNCHANGED txn
           \/ /\ replies' = [replies EXCEPT ![i] = Fulfilled(<<>>, 0, 0)]
              /\ txn' = "open"
        /\ UNCHANGED <<factoryVars, query, pc, requests, txnWrites, store, result>>

PoolCommit ==
    \E i \in 1..Len(requests) :
        /\ requests[i].kind = "commit"
        /\ replies[i] = Pending
        /\ \/ /\ replies' = [replies EXCEPT ![i] = Rejected]
              /\ UNCHANGED <<txn, txnWrites, store>>
           \/ /\ replies' = [replies EXCEPT ![i] = Fulfilled(<<>>, 0, 0)]
              /\ store' = [r \in DOMAIN store |-> store[r] \/ r \in txnWrites]
              /\ txnWrites' = {}
              /\ txn' = "none"
        /\ UNCHANGED <<factoryVars, query, pc, requests, result>>

PoolRollback ==
    \E i \in 1..Len(requests) :
        /\ requests[i].kind = "rollback"
        /\ replies[i] = Pending
        /\ \/ /\ replies' = [replies EXCEPT ![i] = Rejected]
              /\ UNCHANGED <<txn, txnWrites>>
           \/ /\ replies' = [replies EXCEPT ![i] = Fulfilled(<<>>, 0, 0)]
              /\ txnWrites' = {}
              /\ txn' = "none"
        /\ UNCHANGED <<factoryVars, query, pc, requests, store, result>>

-----------------------------------------------------------------------------
(* MySqlCollection *)

\* typeof query === "string"
IsString(arg) == IsTagged(arg, "string")

\* query?.where, query?.sort, query?.limit: the fragment, empty when the
\* query or the field is missing
Fragment(arg, field) ==
    IF Falsy(arg) \/ field \notin DOMAIN arg THEN <<>> ELSE arg[field]

Returns(value) == [kind |-> "return", value |-> value]
Throws(error) == [kind |-> "throw", error |-> error]

\* CollectionError.createError(error)
CollectionError == "CollectionError"

Calls(op) == query.op = op /\ pc = "start"
Awaits(op) == query.op = op /\ pc = "await"

FindSql(arg) ==
    IF IsString(arg) THEN arg.s
    ELSE <<"SELECT", "*", "FROM", TableName>>
         \o Fragment(arg, "where") \o Fragment(arg, "sort")
         \o Fragment(arg, "limit")

FindIssue ==
    /\ Calls("find")
    /\ Issue(<<QueryRequest(FindSql(query.arg), <<>>, 0)>>)
    /\ pc' = "await"
    /\ UNCHANGED <<factoryVars, query, txn, txnWrites, store, result>>

FindReturn ==
    /\ Awaits("find")
    /\ replies[1].state = "fulfilled"
    /\ result' = Returns(replies[1].rows)
    /\ pc' = "done"
    /\ UNCHANGED <<factoryVars, query, requests, replies, txn, txnWrites, store>>

FindCatch ==
    /\ Awaits("find")
    /\ replies[1].state = "rejected"
    /\ result' = Throws(CollectionError)
    /\ pc' = "done"
    /\ UNCHANGED <<factoryVars, query, requests, replies, txn, txnWrites, store>>

\* query[0]: MySqlInsertQueryParams has the one key "documents"
IndexZero(arg) == IF "0" \in DOMAIN arg THEN arg["0"] ELSE Undefined

\* Object.keys(query[0]).join(", ")
InsertColumns(arg) ==
    Join([k \in 1..Len(IndexZero(arg).entries) |->
            <<IndexZero(arg).entries[k].key>>],
         <<",">>)

\* one `(?, ?, ...)` tuple per document, as wide as query[0] has keys
InsertPlaceholders(arg) ==
    Join([d \in 1..Len(arg.documents) |->
            <<"(">>
            \o Join([k \in 1..Len(IndexZero(arg).entries) |-> <<"?">>], <<",">>)
            \o <<")">>],
         <<",">>)

\* the reduce that pushes Object.values(record) of every document
InsertValues(arg) ==
    Flatten([d \in 1..Len(arg.documents) |->
                [k \in 1..Len(arg.documents[d].entries) |->
                    arg.documents[d].entries[k].value]])

\* `INSERT INTO ${table} (${columns}) VALUES ${placeholders}`
InsertSql(arg) ==
    <<"INSERT", "INTO", TableName, "(">> \o InsertColumns(arg)
    \o <<")", "VALUES">> \o InsertPlaceholders(arg)

\* { ...record, id: result.insertId + index } for every document
InsertedRecords(arg, insertId) ==
    [d \in 1..Len(arg.documents) |->
        ObjectOf(arg.documents[d].entries
                 \o <<[key |-> "id", value |-> insertId + (d - 1)]>>)]

\* A string is sent as it is.  With a parameter object the statement is built
\* from query[0] and query.documents: when query[0] is undefined, as it is for
\* an object whose one key is "documents", Object.keys(query[0]) throws a
\* TypeError before any statement is built, and the catch block rethrows it
\* as a CollectionError.
InsertIssue ==
    /\ Calls("insert")
    /\ IF IsString(query.arg)
       THEN /\ Issue(<<QueryRequest(query.arg.s, <<>>, 0)>>)
            /\ pc' = "await"
            /\ UNCHANGED result
       ELSE IF IsTagged(IndexZero(query.arg), "undefined")
       THEN /\ result' = Throws(CollectionError)
            /\ pc' = "done"
            /\ UNCHANGED <<requests, replies>>
       ELSE /\ Issue(<<QueryRequest(InsertSql(query.arg),
                                    InsertValues(query.arg), 0)>>)
            /\ pc' = "await"
            /\ UNCHANGED result
    /\ UNCHANGED <<factoryVars, query, txn, txnWrites, store>>

InsertReturn ==
    /\ Awaits("insert")
    /\ replies[1].state = "fulfilled"
    /\ result' = Returns(IF IsString(query.arg) THEN <<>>
                         ELSE InsertedRecords(query.arg, replies[1].insertId))
    /\ pc' = "done"
    /\ UNCHANGED <<factoryVars, query, requests, replies, txn, txnWrites, store>>

InsertCatch ==
    /\ Awaits("insert")
    /\ replies[1].state = "rejected"
    /\ result' = Throws(CollectionError)
    /\ pc' = "done"
    /\ UNCHANGED <<factoryVars, query, requests, replies, txn, txnWrites, store>>

RemoveSql(arg) ==
    IF IsString(arg) THEN arg.s
    ELSE <<"DELETE", "FROM", TableName>> \o Fragment(arg, "where")

RemoveIssue ==
    /\ Calls("remove")
    /\ Issue(<<QueryRequest(RemoveSql(query.arg), <<>>, 0)>>)
    /\ pc' = "await"
    /\ UNCHANGED <<factoryVars, query, txn, txnWrites, store, result>>

RemoveReturn ==
    /\ Awaits("remove")
    /\ replies[1].state = "fulfilled"
    /\ result' = Returns([status |-> "ok",
                          deletedCount |-> replies[1].affectedRows])
    /\ pc' = "done"
    /\ UNCHANGED <<factoryVars, query, requests, replies, txn, txnWrites, store>>

RemoveCatch ==
    /\ Awaits("remove")
    /\ replies[1].state = "rejected"
    /\ result' = Throws(CollectionError)
    /\ pc' = "done"
    /\ UNCHANGED <<factoryVars, query, requests, replies, txn, txnWrites, store>>

\* `UPDATE ${table} SET ${row.keys.join(", ")} ${row.where}`
UpdateSql(row) ==
    <<"UPDATE", TableName, "SET">> \o Join(row.keys, <<",">>) \o row.where

\* the three ways of MySqlCollection.update
UpdateRaw == query.op = "update" /\ IsString(query.arg)
UpdateSingle ==
    query.op = "update" /\ ~IsString(query.arg) /\ Len(query.arg.updates) = 1
UpdateBatch ==
    query.op = "update" /\ ~IsString(query.arg) /\ Len(query.arg.updates) # 1

UpdateRawIssue ==
    /\ UpdateRaw /\ pc = "start"
    /\ Issue(<<QueryRequest(query.arg.s, <<>>, 0)>>)
    /\ pc' = "await"
    /\ UNCHANGED <<factoryVars, query, txn, txnWrites, store, result>>

UpdateRawReturn ==
    /\ UpdateRaw /\ pc = "await"
    /\ replies[1].state = "fulfilled"
    /\ result' = Returns([status |-> "Success",
                          modifiedCount |-> replies[1].affectedRows])
    /\ pc' = "done"
    /\ UNCHANGED <<factoryVars, query, requests, replies, txn, txnWrites, store>>

UpdateRawCatch ==
    /\ UpdateRaw /\ pc = "await"
    /\ replies[1].state = "rejected"
    /\ result' = Throws(CollectionError)
    /\ pc' = "done"
    /\ UNCHANGED <<factoryVars, query, requests, replies, txn, txnWrites, store>>

UpdateOneIssue ==
    /\ UpdateSingle /\ pc = "start"
    /\ LET row == query.arg.updates[1]
       IN  Issue(<<QueryRequest(UpdateSql(row), row.values, 1)>>)
    /\ pc' = "await"
    /\ UNCHANGED <<factoryVars, query, txn, txnWrites, store, result>>

UpdateOneReturn ==
    /\ UpdateSingle /\ pc = "await"
    /\ replies[1].state = "fulfilled"
    /\ result' = Returns([status |-> "Success",
                          modifiedCount |-> replies[1].affectedRows])
    /\ pc' = "done"
    /\ UNCHANGED <<factoryVars, query, requests, replies, txn, txnWrites, store>>

\* updateOne with its catch block rethrowing, as every other method does
UpdateOneCatchRethrows ==
    /\ UpdateSingle /\ pc = "await"
    /\ replies[1].state = "rejected"
    /\ result' = Throws(CollectionError)
    /\ pc' = "done"
    /\ UNCHANGED <<factoryVars, query, requests, replies, txn, txnWrites, store>>

UpdateOneCatch ==
    /\ UpdateSingle /\ pc = "await"
    /\ replies[1].state = "rejected"
    /\ result' = Returns([status |-> "Failure"])
    /\ pc' = "done"
    /\ UNCHANGED <<factoryVars, query, requests, replies, txn, txnWrites, store>>

\* the requests of the batch's statements: the one after beginTransaction
\* up to the last row's
BatchRequests == 2..(Len(query.arg.updates) + 1)

RECURSIVE SumAffectedRows(_)
\* results.reduce((acc, [result]) => acc + result.affectedRows, 0)
SumAffectedRows(results) ==
    IF Len(results) = 0 THEN 0
    ELSE results[1].affectedRows + SumAffectedRows(Tail(results))

UpdateManyBegin ==
    /\ UpdateBatch /\ pc = "start"
    /\ Issue(<<ControlRequest("beginTransaction")>>)
    /\ pc' = "awaitBegin"
    /\ UNCHANGED <<factoryVars, query, txn, txnWrites, store, result>>

\* updateMany sending the statements without awaiting beginTransaction
UpdateManyIssueNoAwait ==
    /\ UpdateBatch /\ pc = "awaitBegin"
    /\ Issue([i \in 1..Len(query.arg.updates) |->
                QueryRequest(UpdateSql(query.arg.updates[i]),
                             query.arg.updates[i].values, i)])
    /\ pc' = "awaitAll"
    /\ UNCHANGED <<factoryVars, query, txn, txnWrites, store, result>>

\* updates.map(...) calls pool.query for every row before anything is awaited
UpdateManyIssue ==
    /\ UpdateBatch /\ pc = "awaitBegin"
    /\ replies[1].state = "fulfilled"
    /\ Issue([i \in 1..Len(query.arg.updates) |->
                QueryRequest(UpdateSql(query.arg.updates[i]),
                             query.arg.updates[i].values, i)])
    /\ pc' = "awaitAll"
    /\ UNCHANGED <<factoryVars, query, txn, txnWrites, store, result>>

\* Promise.all fulfils once every statement has
UpdateManyCommit ==
    /\ UpdateBatch /\ pc = "awaitAll"
    /\ \A i \in BatchRequests : replies[i].state = "fulfilled"
    /\ Issue(<<ControlRequest("commit")>>)
    /\ pc' = "awaitCommit"
    /\ UNCHANGED <<factoryVars, query, txn, txnWrites, store, result>>

UpdateManyReturn ==
    /\ UpdateBatch /\ pc = "awaitCommit"
    /\ replies[Len(replies)].state = "fulfilled"
    /\ result' = Returns([status |-> "Success",
                          modifiedCount |->
                            SumAffectedRows([i \in 1..Len(query.arg.updates) |->
                                                replies[i + 1]])])
    /\ pc' = "done"
    /\ UNCHANGED <<factoryVars, query, requests, replies, txn, txnWrites, store>>

\* The catch block: beginTransaction or commit rejected, or Promise.all did,
\* which it does on the first rejected statement, the others still pending
\* or not.  The rollback is issued whatever failed.
UpdateManyCatch ==
    /\ UpdateBatch
    /\ \/ pc = "awaitBegin" /\ replies[1].state = "rejected"
       \/ pc = "awaitAll" /\ \E i \in BatchRequests : replies[i].state = "rejected"
       \/ pc = "awaitCommit" /\ replies[Len(replies)].state = "rejected"
    /\ Issue(<<ControlRequest("rollback")>>)
    /\ pc' = "awaitRollback"
    /\ UNCHANGED <<factoryVars, query, txn, txnWrites, store, result>>

UpdateManyFailure ==
    /\ UpdateBatch /\ pc = "awaitRollback"
    /\ replies[Len(replies)].state = "fulfilled"
    /\ result' = Returns([status |-> "Failure"])
    /\ pc' = "done"
    /\ UNCHANGED <<factoryVars, query, requests, replies, txn, txnWrites, store>>

\* `await this.pool.rollback()` stands in the catch block, outside any try:
\* a rejected rollback rejects updateMany with the driver's error
UpdateManyRollbackRejected ==
    /\ UpdateBatch /\ pc = "awaitRollback"
    /\ replies[Len(replies)].state = "rejected"
    /\ result' = Throws("DriverError")
    /\ pc' = "done"
    /\ UNCHANGED <<factoryVars, query, requests, replies, txn, txnWrites, store>>

CountSql(arg) ==
    IF IsString(arg) THEN arg.s
    ELSE <<"SELECT", "COUNT(*)", "AS", "count", "FROM", TableName>>
         \o Fragment(arg, "where")

\* result[0]?.count
CountField(rows) ==
    IF Len(rows) = 0 \/ "count" \notin DOMAIN rows[1] THEN Undefined
    ELSE rows[1].count

\* typeof x === "number" && isFinite(x), without the test for a fraction
NumberIsIntegerNoFraction(x) == IsTagged(x, "number") /\ x.finite

\* Number.isInteger(x): a number, finite, with no fractional part
NumberIsInteger(x) ==
    IsTagged(x, "number") /\ x.finite /\ "half" \notin DOMAIN x

CountIssue ==
    /\ Calls("count")
    /\ Issue(<<QueryRequest(CountSql(query.arg), <<>>, 0)>>)
    /\ pc' = "await"
    /\ UNCHANGED <<factoryVars, query, txn, txnWrites, store, result>>

CountReturn ==
    /\ Awaits("count")
    /\ replies[1].state = "fulfilled"
    /\ result' = Returns(IF NumberIsInteger(CountField(replies[1].rows))
                         THEN CountField(replies[1].rows)
                         ELSE NaN)
    /\ pc' = "done"
    /\ UNCHANGED <<factoryVars, query, requests, replies, txn, txnWrites, store>>

CountCatch ==
    /\ Awaits("count")
    /\ replies[1].state = "rejected"
    /\ result' = Throws(CollectionError)
    /\ pc' = "done"
    /\ UNCHANGED <<factoryVars, query, requests, replies, txn, txnWrites, store>>

\* `SELECT ${pipeline} FROM ${table} ${where} ${groupBy} ${sort}`
AggregateSql(arg) ==
    <<"SELECT">> \o arg.pipeline \o <<"FROM", TableName>>
    \o arg.where \o arg.groupBy \o arg.sort

AggregateIssue ==
    /\ Calls("aggregate")
    /\ Issue(<<QueryRequest(AggregateSql(query.arg), <<>>, 0)>>)
    /\ pc' = "await"
    /\ UNCHANGED <<factoryVars, query, txn, txnWrites, store, result>>

AggregateReturn ==
    /\ Awaits("aggregate")
    /\ replies[1].state = "fulfilled"
    /\ result' = Returns(replies[1].rows)
    /\ pc' = "done"
    /\ UNCHANGED <<factoryVars, query, requests, replies, txn, txnWrites, store>>

AggregateCatch ==
    /\ Awaits("aggregate")
    /\ replies[1].state = "rejected"
    /\ result' = Throws(CollectionError)
    /\ pc' = "done"
    /\ UNCHANGED <<factoryVars, query, requests, replies, txn, txnWrites, store>>

-----------------------------------------------------------------------------
(* The calls made on a collection: raw strings, and what the factory compiled *)

FindFragments(params) ==
    LET compiled == createFindQuery(params)
    IN  [where |-> compiled.where, sort |-> compiled.sort,
         limit |-> compiled.limit]

FindCalls ==
    {[op |-> "find", arg |-> a] :
        a \in {StringOf(<<"SELECT", "raw">>), Undefined}
              \cup {FindFragments(p) :
                        p \in {f \in FindParams : createFindQuery(f).err = "none"}}}

\* the records given to insert: objects of the same keys
Documents ==
    {ObjectOf(<<[key |-> "name", value |-> n], [key |-> "age", value |-> a]>>) :
        n \in Scalars, a \in Scalars}

\* a string, a MySqlInsertQueryParams object ({ documents }), or an object
\* that carries its first document under the key 0 as well
InsertCalls ==
    {[op |-> "insert", arg |-> a] :
        a \in {StringOf(<<"INSERT", "raw">>)}
              \cup {[documents |-> d] : d \in SeqsUpTo(Documents, MaxBatch)}
              \cup {("0" :> d[1]) @@ [documents |-> d] :
                        d \in SeqsUpTo(Documents, MaxBatch) \ {<<>>}}}

RemoveCalls ==
    {[op |-> "remove", arg |-> a] :
        a \in {StringOf(<<"DELETE", "raw">>), Undefined}
              \cup {[where |-> createRemoveQuery(p).where] :
                        p \in {r \in WhereParams : createRemoveQuery(r).err = "none"}}}

UpdateCalls ==
    {[op |-> "update", arg |-> a] :
        a \in {StringOf(<<"UPDATE", "raw">>)}
              \cup {[updates |-> createUpdateQuery(u, w).updates] :
                        u \in SeqsUpTo(Payloads, MaxBatch),
                        w \in {<<WhereOf(AgeLeaf)>>,
                               <<WhereOf(Null), WhereOf(OrGroup)>>}}}

\* A pass-through `return this.pool.<primitive>()`: the call is made, and the
\* method settles as the pool's promise does; there is no try block, so a
\* rejection reaches the caller as the driver's error
PassThrough(op, primitive) ==
    \/ /\ Calls(op)
       /\ Issue(<<ControlRequest(primitive)>>)
       /\ pc' = "await"
       /\ UNCHANGED <<factoryVars, query, txn, txnWrites, store, result>>
    \/ /\ Awaits(op)
       /\ replies[1].state # "pending"
       /\ result' = IF replies[1].state = "fulfilled"
                    THEN Returns(Undefined)
                    ELSE Throws("DriverError")
       /\ pc' = "done"
       /\ UNCHANGED <<factoryVars, query, requests, replies, txn, txnWrites,
                      store>>

StartTransaction == PassThrough("startTransaction", "beginTransaction")
CommitTransaction == PassThrough("commitTransaction", "commit")
RollbackTransaction == PassThrough("rollbackTransaction", "rollback")

CountCalls ==
    {[op |-> "count", arg |-> a] :
        a \in {StringOf(<<"SELECT", "raw">>), Undefined}
              \cup {[where |-> createCountQuery(p).where] :
                        p \in {c \in WhereParams : createCountQuery(c).err = "none"}}}

AggregateCalls ==
    {[op |-> "aggregate", arg |-> a] :
        a \in {[pipeline |-> <<"*">>, where |-> <<>>, groupBy |-> <<>>,
                sort |-> <<>>],
               [pipeline |-> <<"SUM(age)", "AS", "totalSum">>,
                where |-> <<"WHERE", "age", ">", "18">>,
                groupBy |-> <<"GROUP", "BY", "status">>,
                sort |-> <<"ORDER", "BY", "status">>]}}

\* startTransaction(), commitTransaction(), rollbackTransaction()
TransactionCalls ==
    {[op |-> o, arg |-> Undefined] :
        o \in {"startTransaction", "commitTransaction", "rollbackTransaction"}}

CollectionCalls ==
    FindCalls \cup InsertCalls \cup RemoveCalls \cup UpdateCalls
    \cup CountCalls \cup AggregateCalls \cup TransactionCalls

Init ==
    /\ factoryCall = [fn |-> "none"]
    /\ factoryRet = NotCalled
    /\ query \in CollectionCalls
    /\ pc = "start"
    /\ requests = <<>>
    /\ replies = <<>>
    /\ txn = "none"
    /\ txnWrites = {}
    /\ store = [r \in 1..MaxBatch |-> FALSE]
    /\ result = Running

Next ==
    \/ FindIssue \/ FindReturn \/ FindCatch
    \/ InsertIssue \/ InsertReturn \/ InsertCatch
    \/ RemoveIssue \/ RemoveReturn \/ RemoveCatch
    \/ UpdateRawIssue \/ UpdateRawReturn \/ UpdateRawCatch
    \/ UpdateOneIssue \/ UpdateOneReturn \/ UpdateOneCatch
    \/ UpdateManyBegin \/ UpdateManyIssue \/ UpdateManyCommit
    \/ UpdateManyReturn \/ UpdateManyCatch \/ UpdateManyFailure
    \/ UpdateManyRollbackRejected
    \/ CountIssue \/ CountReturn \/ CountCatch
    \/ AggregateIssue \/ AggregateReturn \/ AggregateCatch
    \/ StartTransaction \/ CommitTransaction \/ RollbackTransaction
    \/ PoolQuery \/ PoolBeginTransaction \/ PoolCommit \/ PoolRollback

Spec == Init /\ [][Next]_vars

-----------------------------------------------------------------------------
(* What the specification says of the parser and the factory *)

\* the SQL comparison token the specification gives each operator
SqlToken ==
    [o \in Operators |->
        CASE o = "eq" -> "="
          [] o = "ne" -> "!="
          [] o = "gt" -> ">"
          [] o = "lt" -> "<"
          [] o = "gte" -> ">="
          [] o = "lte" -> "<="
          [] o = "in" -> "IN"
          [] o = "nin" -> "NOT IN"
          [] o = "like" -> "LIKE"]

RECURSIVE PreOrderLeaves(_)
\* the leaves of a condition tree, pre-order, left to right
PreOrderLeaves(node) ==
    IF Falsy(node) THEN <<>>
    ELSE IF IsTagged(node, "Where") THEN PreOrderLeaves(node.result)
    ELSE IF "left" \in DOMAIN node THEN <<node>>
    ELSE IF "conditions" \in DOMAIN node
    THEN Flatten([i \in 1..Len(node.conditions) |->
                    PreOrderLeaves(node.conditions[i])])
    ELSE <<>>

RECURSIVE ContainsInvalid(_)
\* the tree holds a leaf whose operator is outside the nine, or a node that is
\* neither leaf-shaped nor group-shaped (null is the neutral condition)
ContainsInvalid(node) ==
    IF Falsy(node) THEN FALSE
    ELSE IF IsTagged(node, "Where") THEN ContainsInvalid(node.result)
    ELSE IF "left" \in DOMAIN node THEN OperatorOf(node) \notin Operators
    ELSE IF "conditions" \in DOMAIN node
    THEN \E i \in 1..Len(node.conditions) : ContainsInvalid(node.conditions[i])
    ELSE TRUE

\* the condition under a Where instance
Unwrapped(node) == IF IsTagged(node, "Where") THEN node.result ELSE node

IsGroup(node) ==
    ~Falsy(node) /\ "left" \notin DOMAIN node /\ "conditions" \in DOMAIN node

Returned(fn) ==
    /\ factoryCall.fn = fn
    /\ factoryRet # NotCalled
    /\ factoryRet.err = "none"

Threw(fn) ==
    /\ factoryCall.fn = fn
    /\ factoryRet # NotCalled
    /\ factoryRet.err # "none"

\* C5: a compiled condition tree of n leaves has n placeholders and n values,
\* the i-th value is the i-th leaf's (pre-order), the i-th placeholder stands
\* in the i-th leaf's comparison, and a group's text is its children's texts,
\* each in parentheses, joined by the uppercased joiner
C5_CompileOrder ==
    Returned("parse") =>
        LET leaves == PreOrderLeaves(factoryCall.data)
            n == Len(leaves)
            text == factoryRet.query
            node == Unwrapped(factoryCall.data)
        IN  /\ Placeholders(text) = n
            /\ Len(factoryRet.values) = n
            /\ \A i \in 1..n :
                LET p == PlaceholderAt(text, i)
                IN  /\ factoryRet.values[i] = leaves[i].right
                    /\ p > 2
                    /\ text[p - 2] = leaves[i].left
                    /\ text[p - 1] = SqlToken[leaves[i].operator]
            /\ IsGroup(node) =>
                text = Join([i \in 1..Len(node.conditions) |->
                                <<"(">> \o parse(node.conditions[i]).query
                                        \o <<")">>],
                            <<IF node.operator = "and" THEN "AND" ELSE "OR">>)

\* C5 witness: a group holding a leaf and a nested group has been compiled
C5_Witness ==
    /\ Returned("parse")
    /\ factoryCall.data =
        [operator |-> "and",
         conditions |-> <<AgeLeaf, [operator |-> "or",
                                    conditions |-> <<StatusLeaf>>]>>]
    /\ factoryRet.values = <<18, 19>>

\* C6 as stated: createCountQuery returns "WHERE 1=1" when no condition is
\* supplied and "WHERE " followed by the compiled text when one is
C6_CountWhereComplete ==
    Returned("createCountQuery") =>
        LET where == WhereField(factoryCall.params)
        IN  IF Falsy(where) \/ Falsy(where.result)
            THEN factoryRet.where = <<"WHERE", "1=1">>
            ELSE factoryRet.where = <<"WHERE">> \o parse(where.result).query

\* C7 as stated: createRemoveQuery without a condition, the where field
\* left out included, returns where = "" and does not raise
C7_RemoveWithoutCondition ==
    (factoryCall.fn = "createRemoveQuery" /\ factoryRet # NotCalled) =>
        LET where == WhereField(factoryCall.params)
        IN  (Falsy(where) \/ Falsy(where.result)) =>
                factoryRet.err = "none" /\ factoryRet.where = <<>>

\* C8 as stated: "LIMIT <offset>, <limit>" exactly when both are finite,
\* "LIMIT <limit>" exactly when limit is finite and offset is not, and no
\* limit fragment otherwise
C8_LimitFragment ==
    Returned("createFindQuery") =>
        LET limit == factoryCall.params.limit
            offset == factoryCall.params.offset
        IN  factoryRet.limit =
                IF NumberIsFinite(limit) /\ NumberIsFinite(offset)
                THEN <<"LIMIT", NumberToString(offset), ",",
                       NumberToString(limit)>>
                ELSE IF NumberIsFinite(limit)
                THEN <<"LIMIT", NumberToString(limit)>>
                ELSE <<>>

\* C9: with c >= 1 conditions createUpdateQuery returns one row per payload,
\* in payload order, row i compiled with condition i when there is one and
\* with the last condition otherwise; surplus payloads are no error
C9_LastConditionReused ==
    (factoryCall.fn = "createUpdateQuery" /\ factoryRet # NotCalled
     /\ Len(factoryCall.where) >= 1) =>
        LET updates == factoryCall.updates
            where == factoryCall.where
            c == Len(where)
            used(i) == where[IF i <= c THEN i ELSE c]
        IN  /\ factoryRet.err = "none" <=>
                \A i \in 1..Len(updates) : parse(used(i).result).err = "none"
            /\ factoryRet.err = "none" =>
                /\ Len(factoryRet.updates) = Len(updates)
                /\ \A i \in 1..Len(updates) :
                    /\ factoryRet.updates[i].where = parse(used(i).result).query
                    /\ factoryRet.updates[i].values =
                        [k \in 1..Len(updates[i].entries) |->
                            updates[i].entries[k].value]

\* C9 witness: three payloads and two different conditions have been compiled
C9_Witness ==
    /\ Returned("createUpdateQuery")
    /\ Len(factoryCall.updates) = 3
    /\ factoryCall.where = <<WhereOf(AgeLeaf), WhereOf(StatusLeaf)>>
    /\ factoryRet.updates[3].where = <<"status", "=", "?">>

\* C10: a tree holding an unsupported operator or a malformed node never
\* compiles, it throws; each of the nine operators compiles to its own token
C10_OperatorSetClosed ==
    (factoryCall.fn = "parse" /\ factoryRet # NotCalled) =>
        LET node == Unwrapped(factoryCall.data)
        IN  /\ ContainsInvalid(node) =>
                /\ factoryRet.err \in
                    {"Unsupported operator", "Invalid condition format"}
                /\ factoryRet.query = <<>>
            /\ (~Falsy(node) /\ "left" \in DOMAIN node
                /\ OperatorOf(node) \in Operators) =>
                /\ factoryRet.err = "none"
                /\ factoryRet.query = <<node.left, SqlToken[node.operator], "?">>
            /\ \A o1, o2 \in Operators :
                SqlToken[o1] = SqlToken[o2] => o1 = o2

\* C10 witness: a group holding a nested group with an unsupported operator
\* has been refused
C10_Witness ==
    /\ Threw("parse")
    /\ factoryCall.data =
        [operator |-> "and",
         conditions |-> <<AgeLeaf, [operator |-> "or",
                                    conditions |-> <<RegexLeaf>>]>>]
    /\ factoryRet.err = "Unsupported operator"

-----------------------------------------------------------------------------
(* What the specification says of the execution layer *)

\* a statement handed to pool.query has been rejected
StatementRejected ==
    \E i \in 1..Len(requests) :
        requests[i].kind = "query" /\ replies[i].state = "rejected"

\* a request of the given kind has been issued
Issued(kind) == \E i \in 1..Len(requests) : requests[i].kind = kind

\* some request of the call has been rejected
StepRejected == \E i \in 1..Len(requests) : replies[i].state = "rejected"

\* an update call of two rows or more
MultiRowUpdate == UpdateBatch /\ Len(query.arg.updates) >= 2

\* C1 as stated: once a multi-row update with a failed statement has
\* returned, no row of the batch is modified in the store, whatever the order
\* the statements settle in
C1_BatchAllOrNothing ==
    (MultiRowUpdate /\ pc = "done" /\ StatementRejected) =>
        \A r \in DOMAIN store : ~store[r]

\* C2 as stated: a multi-row update never raises; a failed step gives a
\* rollback and status Failure without modifiedCount, and Success carries the
\* sum of the affected rows and comes only when every statement and the
\* commit succeeded
C2_BatchNeverRaises ==
    (MultiRowUpdate /\ pc = "done") =>
        /\ result.kind = "return"
        /\ StepRejected =>
            /\ Issued("rollback")
            /\ result.value = [status |-> "Failure"]
        /\ ~StepRejected =>
            /\ Issued("commit")
            /\ result.value =
                [status |-> "Success",
                 modifiedCount |->
                    SumAffectedRows([i \in 1..Len(query.arg.updates) |->
                                        replies[i + 1]])]

\* the methods that rethrow a failed pool.query as a CollectionError
RaisingCall ==
    query.op \in {"find", "insert", "remove", "count", "aggregate"} \/ UpdateRaw

C4_ValuesMatchPlaceholders ==
    \A i \in 1..Len(requests) :
        requests[i].kind = "query" =>
            Placeholders(requests[i].sql) = Len(requests[i].values)

\* an insert call given records, not a string
InsertOfRecords ==
    query.op = "insert" /\ ~IsString(query.arg) /\ Len(query.arg.documents) >= 1

\* what C11 says of a finished insert of k records: one INSERT statement whose
\* columns are the first record's keys and whose k tuples bind the records'
\* values in record order, and k records back, the i-th with
\* id = insertId + i
InsertAsSpecified ==
    LET docs == query.arg.documents
        k == Len(docs)
        width == Len(docs[1].entries)
    IN  /\ Len(requests) = 1
        /\ requests[1].kind = "query"
        /\ requests[1].sql[1] = "INSERT"
        /\ \A c \in 1..width : requests[1].sql[3 + 2 * c] = docs[1].entries[c].key
        /\ Placeholders(requests[1].sql) = k * width
        /\ Len(requests[1].values) = k * width
        /\ \A d \in 1..k : \A c \in 1..width :
            requests[1].values[(d - 1) * width + c] = docs[d].entries[c].value
        /\ result.kind = "return"
        /\ Len(result.value) = k
        /\ \A d \in 1..k :
            result.value[d].entries =
                docs[d].entries
                \o <<[key |-> "id", value |-> replies[1].insertId + (d - 1)]>>

\* C11 as stated: an insert of k >= 1 records whose statement the pool does
\* not reject issues exactly one INSERT binding the records' values in record
\* order and returns the k records with id = insertId + i
C11_InsertReturnsRecordsWithIds ==
    (InsertOfRecords /\ pc = "done" /\ ~StatementRejected) => InsertAsSpecified

\* an integer, said without Number.isInteger: a finite number equal to the
\* whole number of its value
IsIntegerValue(x) == x.t = "number" /\ x.finite /\ x = Num(x.v)

\* C12: a finished count whose query the pool fulfilled has returned the first
\* row's count field when that field is an integer and NaN when the field is
\* missing or not an integer; a count that raised had its query rejected
C12_CountReturnsIntegerOrNaN ==
    (query.op = "count" /\ pc = "done") =>
        /\ Len(requests) = 1
        /\ replies[1].state = "fulfilled" =>
            result = Returns(IF IsIntegerValue(CountField(replies[1].rows))
                             THEN CountField(replies[1].rows)
                             ELSE NaN)
        /\ result.kind = "throw" => replies[1].state = "rejected"

\* a count whose query came back with a count field that is a number but not
\* an integer, and which returned NaN
C12_Witness ==
    /\ query.op = "count" /\ pc = "done"
    /\ replies[1].state = "fulfilled"
    /\ CountField(replies[1].rows) = Half(3)
    /\ result = Returns(NaN)

\* the positions, in the order of issue, of the requests of a kind
IssuedAt(kind) == {i \in 1..Len(requests) : requests[i].kind = kind}

\* the operations C13 lists beside the multi-row update
NoTransactionOperation ==
    \/ query.op \in {"find", "insert", "remove", "count", "aggregate"}
    \/ query.op = "update" /\ ~UpdateBatch

\* no begin, commit or rollback among the requests of the call
NoTransactionRequest ==
    IssuedAt("beginTransaction") \cup IssuedAt("commit") \cup IssuedAt("rollback")
        = {}

\* beginTransaction is the first request of the call, issued once, and it was
\* fulfilled before any statement of the batch was issued
BeginBeforeStatements ==
    /\ IssuedAt("beginTransaction") \subseteq {1}
    /\ IssuedAt("query") # {} => replies[1].state = "fulfilled"

\* every row's statement is issued at most once
StatementsIssuedOnce ==
    \A i, j \in IssuedAt("query") : requests[i].row = requests[j].row => i = j

\* a commit is issued only after every statement of the batch was issued and
\* fulfilled
CommitAfterStatements ==
    \A c \in IssuedAt("commit") :
        /\ \A r \in 1..Len(query.arg.updates) :
            \E i \in IssuedAt("query") : i < c /\ requests[i].row = r
        /\ \A i \in IssuedAt("query") : i < c /\ replies[i].state = "fulfilled"

\* C13 as stated: a multi-row update begins before its statements, issues each
\* statement once, commits only after all statements succeeded, issues one of
\* commit and rollback and never both, and rolls back only a transaction that
\* was opened; the other operations issue no begin, commit or rollback
C13_CommitOrRollbackNeverBoth ==
    /\ UpdateBatch =>
        /\ BeginBeforeStatements
        /\ StatementsIssuedOnce
        /\ CommitAfterStatements
        /\ Cardinality(IssuedAt("commit") \cup IssuedAt("rollback")) <= 1
        /\ pc = "done" =>
            Cardinality(IssuedAt("commit") \cup IssuedAt("rollback")) = 1
        /\ IssuedAt("rollback") # {} => replies[1].state = "fulfilled"
    /\ NoTransactionOperation => NoTransactionRequest

\* C13 amended: a multi-row update begins before its statements, issues each
\* statement once and commits only after all statements succeeded; it issues
\* at most one commit and at most one rollback, the rollback only after a step
\* (begin, a statement, the commit) was rejected, and both only when it is the
\* commit that was rejected; a finished call has issued a rollback or has a
\* fulfilled commit; the other operations issue no begin, commit or rollback
C13_TransactionProtocol ==
    /\ UpdateBatch =>
        /\ BeginBeforeStatements
        /\ StatementsIssuedOnce
        /\ CommitAfterStatements
        /\ Cardinality(IssuedAt("commit")) <= 1
        /\ Cardinality(IssuedAt("rollback")) <= 1
        /\ \A b \in IssuedAt("rollback") :
            /\ b = Len(requests)
            /\ \E i \in 1..(b - 1) : replies[i].state = "rejected"
            /\ \A c \in IssuedAt("commit") : replies[c].state = "rejected"
        /\ pc = "done" =>
            \/ IssuedAt("rollback") # {}
            \/ \E c \in IssuedAt("commit") : replies[c].state = "fulfilled"
    /\ NoTransactionOperation => NoTransactionRequest

\* a finished multi-row update that issued a commit and then a rollback
C13_Witness ==
    /\ MultiRowUpdate /\ pc = "done"
    /\ IssuedAt("query") # {}
    /\ IssuedAt("commit") # {}
    /\ IssuedAt("rollback") # {}

=============================================================================
